---- MODULE Spec2Model ----
(***************************************************************************)
(* Model of dhan_websocket_alert_bot.py.                                   *)
(*                                                                         *)
(*   Spec         the supervisor: start_market_feed() with its discovery   *)
(*                (locate_feed_class), constructor calls, run-style calls, *)
(*                backoff sleeps, and the signal handler.                  *)
(*   SpecHandler  the callback path: market_feed_handler() with the        *)
(*                send_telegram_message() call it makes, over messages of  *)
(*                every shape the handler distinguishes.                   *)
(*   SpecNotifier send_telegram_message() on canonical ticks, over a       *)
(*                non-decreasing clock with steps around the cooldown.     *)
(*                                                                         *)
(* Python exceptions are modelled as explicit outcomes of a call:          *)
(* "returns", "TypeError", "Exception" (any other Exception subclass) and  *)
(* "KeyboardInterrupt" (a BaseException, not caught by `except Exception`).*)
(***************************************************************************)
EXTENDS Integers, Sequences, FiniteSets, TLC

\* ---------------------------------------------------------------- bounds
\* connection attempts explored (loop iterations of start_market_feed)
MaxAttempts == 9

\* handler calls explored
MaxEvents == 4
\* seconds the clock may advance past StartTime
MaxTime == 61
\* time.time() when the first message arrives (seconds since the epoch,
\* so far above the cooldown)
StartTime == 1000

\* ------------------------------------------------------ program constants
INITIAL_BACKOFF == 1
MAX_BACKOFF == 60
SEND_INTERVAL_SECONDS == 60

None == "None"

Min(a, b) == IF a < b THEN a ELSE b

\* ------------------------------------------------------------- variables
VARIABLES
  \* --- module globals
  _running,     \* line 52, cleared by _signal_handler
  creds,        \* which of the four environment credentials are set
  \* --- the installed dhanhq package, as locate_feed_class sees it
  pkg,
  feedMethods,  \* attribute names a constructed feed handle exposes
  \* --- locals of start_market_feed
  pc,           \* position in start_market_feed
  module_obj, FeedClass,
  feed, started, backoff,
  inCall,       \* a run-style call has been entered and has not come back
  \* --- observation (history) variables
  attemptNo,    \* loop iterations begun (loop test passed)
  sleeps,       \* backoff sleeps since the last normally-returning run-call
  lastSleep,    \* duration of the most recent time.sleep, 0 = none yet
  sleptSinceCtor, \* seconds slept since the latest constructor call
  unreleased,   \* handles constructed on which no close/disconnect was called
  discovered,   \* locate_feed_class has been called
  ctorCalls,    \* constructor calls made in the current attempt
  ctorResults,  \* how each of them ended, in the same order
  runCalls,     \* run-style calls made in the current attempt, in order
  runResults,   \* how each of them that has come back ended, in order
  everCtor,     \* some constructor call has been made
  sigAttempt,   \* attemptNo when the signal handler ran, -1 = not yet
  ctorAfterSig, \* a constructor call was started while _running = FALSE
  runAfterSig,  \* a run-style call was started while _running = FALSE
  lastOutcome,  \* how the latest attempt ended
  prevOutcome,  \* how the attempt before it ended
  backoffAtReturn, \* backoff when a run-style call last returned, -1 = never
  \* --- module globals used on the callback path
  now,          \* time.time(), whole seconds
  _last_sent,   \* line 53: security id -> time of the last successful send
  latest_ltp,   \* line 54: security id -> latest price
  \* --- observation of the callback path
  events,       \* calls of market_feed_handler so far
  lastCall,     \* what the latest call of market_feed_handler did
  dispatched,   \* security id -> the latest POSTs made for it (at most two)
  sends,        \* security id -> number of POSTs answered with a 2xx
  credErrors    \* times "Telegram credentials missing" was logged

supVars == <<_running, creds, pkg, feedMethods, pc, module_obj, FeedClass,
             feed, started, backoff, inCall, attemptNo, sleeps, lastSleep,
             discovered, ctorCalls, runCalls, everCtor, sigAttempt,
             ctorAfterSig, runAfterSig, lastOutcome, prevOutcome,
             backoffAtReturn, ctorResults, runResults, sleptSinceCtor,
             unreleased>>

hVars == <<now, _last_sent, latest_ltp, events, lastCall, dispatched,
           sends, credErrors>>

\* ------------------------------------------------------------ credentials
CredNames == {"DHAN_CLIENT_ID", "DHAN_ACCESS_TOKEN",
              "TELEGRAM_BOT_TOKEN", "TELEGRAM_CHAT_ID"}

\* all four set, or exactly one of them missing
CredCases == {CredNames} \cup { CredNames \ {c} : c \in CredNames }

CLIENT_ID == "DHAN_CLIENT_ID" \in creds
ACCESS_TOKEN == "DHAN_ACCESS_TOKEN" \in creds
TELEGRAM_BOT_TOKEN == "TELEGRAM_BOT_TOKEN" \in creds
TELEGRAM_CHAT_ID == "TELEGRAM_CHAT_ID" \in creds

\* ------------------------------------------------- the installed package
\* An attribute is absent, a class (truthy), or present but falsy
\* (e.g. `MarketFeed = None` left as a placeholder by the package).
ClassNames == <<"MarketFeed", "DhanFeed", "DhanMarketFeed", "MarketSocket">>

NoAttrs == [n \in {ClassNames[i] : i \in 1..4} |-> "absent"]

With(attrs, n, kind) == [attrs EXCEPT ![n] = kind]

Packages ==
  { \* dhanhq is not installed
    [rootImport |-> FALSE, rootAttrs |-> NoAttrs, rootHasSub |-> FALSE,
     subImport |-> FALSE, subAttrs |-> NoAttrs],
    \* dhanhq.MarketFeed at the root
    [rootImport |-> TRUE, rootAttrs |-> With(NoAttrs, "MarketFeed", "class"),
     rootHasSub |-> TRUE, subImport |-> TRUE,
     subAttrs |-> With(NoAttrs, "DhanFeed", "class")],
    \* root placeholder MarketFeed = None
    [rootImport |-> TRUE, rootAttrs |-> With(NoAttrs, "MarketFeed", "falsy"),
     rootHasSub |-> FALSE, subImport |-> FALSE, subAttrs |-> NoAttrs],
    \* dhanhq.marketfeed.DhanFeed
    [rootImport |-> TRUE, rootAttrs |-> NoAttrs, rootHasSub |-> TRUE,
     subImport |-> TRUE, subAttrs |-> With(NoAttrs, "DhanFeed", "class")],
    \* dhanhq.marketfeed with none of the known names
    [rootImport |-> TRUE, rootAttrs |-> NoAttrs, rootHasSub |-> TRUE,
     subImport |-> TRUE, subAttrs |-> NoAttrs],
    \* dhanhq.marketfeed with placeholder DhanFeed = None
    [rootImport |-> TRUE, rootAttrs |-> NoAttrs, rootHasSub |-> TRUE,
     subImport |-> TRUE, subAttrs |-> With(NoAttrs, "DhanFeed", "falsy")],
    \* submodule not imported by the package __init__, found by importlib
    [rootImport |-> TRUE, rootAttrs |-> NoAttrs, rootHasSub |-> FALSE,
     subImport |-> TRUE, subAttrs |-> With(NoAttrs, "MarketSocket", "class")],
    \* dhanhq imports but has no market feed at all
    [rootImport |-> TRUE, rootAttrs |-> NoAttrs, rootHasSub |-> FALSE,
     subImport |-> FALSE, subAttrs |-> NoAttrs] }

\* attribute sets of the feed handles the model explores
FeedShapes ==
  { {}, {"run_forever"}, {"run"}, {"start"}, {"connect"},
    {"connect", "listen"},
    {"run_forever", "disconnect"},
    {"run_forever", "run", "start", "connect", "listen"} }

\* getattr(mod, name): the class, the falsy placeholder, or absent
AttrValue(kind) == IF kind = "class" THEN "class" ELSE "falsy"

\* first of the common names present in the marketfeed module (lines
\* 132-138, 150-153), 0 when none is
FirstClassName(attrs) ==
  IF \E i \in 1..4 : attrs[ClassNames[i]] # "absent"
  THEN CHOOSE i \in 1..4 :
         /\ attrs[ClassNames[i]] # "absent"
         /\ \A j \in 1..(i - 1) : attrs[ClassNames[j]] = "absent"
  ELSE 0

\* the tuple (module_object, FeedClass) of locate_feed_class; the helpers
\* dict only selects the instrument tuple and is left out
ScanMarketfeed(attrs) ==
  IF FirstClassName(attrs) # 0
  THEN <<"dhanhq.marketfeed", AttrValue(attrs[ClassNames[FirstClassName(attrs)]])>>
  ELSE <<"dhanhq.marketfeed", None>>

locate_feed_class(p) ==
  IF p.rootImport /\ p.rootAttrs["MarketFeed"] # "absent"
  THEN <<"dhanhq", AttrValue(p.rootAttrs["MarketFeed"])>>
  ELSE IF p.rootImport /\ p.rootHasSub
  THEN ScanMarketfeed(p.subAttrs)
  ELSE IF p.subImport
  THEN ScanMarketfeed(p.subAttrs)
  ELSE <<None, None>>

\* hasattr(module_obj, name) for the module start_market_feed was handed
ModuleHasAttr(p, m, n) ==
  IF m = "dhanhq" THEN p.rootAttrs[n] # "absent"
  ELSE IF m = "dhanhq.marketfeed" THEN p.subAttrs[n] # "absent"
  ELSE FALSE

\* `if FeedClass:` - truthiness of what locate_feed_class returned
Truthy(v) == v = "class"

\* ------------------------------------------------- Python values, dicts
\* A value found in a message: None, a str, or a number.  Numbers carry
\* hundredths, so that 1642.55 is the integer 164255.
NoneV == [t |-> "none", s |-> "", n |-> 0]
Str(x) == [t |-> "str", s |-> x, n |-> 0]
Num(x) == [t |-> "num", s |-> "", n |-> x]

\* bool(v)
IsTruthy(v) ==
  ~(v.t = "none" \/ (v.t = "str" /\ v.s = "") \/ (v.t = "num" /\ v.n = 0))

\* Python `a or b`
Or2(a, b) == IF IsTruthy(a) THEN a ELSE b

\* the empty dict, d.get(k), d.get(k, default), d[k] = v
EmptyDict == [k \in {} |-> 0]
DictGet(d, k) == IF k \in DOMAIN d THEN d[k] ELSE NoneV
Get(d, k, default) == IF k \in DOMAIN d THEN d[k] ELSE default
Put(d, k, v) == [x \in DOMAIN d \cup {k} |-> IF x = k THEN v ELSE d[x]]

\* str(v) for the identifiers the model uses
ToStr(v) ==
  CASE v.t = "str" -> v.s
    [] v.t = "num" /\ v.n = 133300 -> "1333"
    [] v.t = "num" /\ v.n = 50000 -> "500"
    [] v.t = "num" -> "0"
    [] OTHER -> "None"

\* float(v): ok = FALSE stands for the ValueError/TypeError float() raises
ParseFloat(x) ==
  CASE x = "1642.55" -> [ok |-> TRUE, val |-> 164255]
    [] x = "1333" -> [ok |-> TRUE, val |-> 133300]
    [] x = "500" -> [ok |-> TRUE, val |-> 50000]
    [] x = "99.5" -> [ok |-> TRUE, val |-> 9950]
    [] OTHER -> [ok |-> FALSE, val |-> 0]

Float(v) ==
  CASE v.t = "num" -> [ok |-> TRUE, val |-> v.n]
    [] v.t = "str" -> ParseFloat(v.s)
    [] OTHER -> [ok |-> FALSE, val |-> 0]

\* ------------------------------------------------------ inbound messages
\* form: "dict", "json" (bytes/str that json.loads turns into a dict),
\* "text" (bytes/str that does not decode to a dict), "object" (top holds
\* its attributes).  nest maps a key to the dict stored under it.
IdKeys == <<"securityId", "symbol", "security_id", "s">>
PriceKeys == <<"lastTradedPrice", "ltp", "last_price", "last">>
NestKeys == <<"data", "payload", "tick", "update">>
NestedIdKeys == <<"securityId", "symbol">>
NestedPriceKeys == <<"lastTradedPrice", "ltp", "last_price">>

Range(q) == {q[i] : i \in 1..Len(q)}

IdValues == {Str("1333"), Str("500"), Str(""), Num(133300)}
PriceValues == {Str("1642.55"), Num(9950), Num(0), Str("abc"), NoneV}

\* a dict with at most one identifier key and at most one price key
Fields(ik, iv, pk, pv) ==
  [k \in ({ik} \cup {pk}) \ {"-"} |-> IF k = ik THEN iv ELSE pv]

TopDicts ==
  { Fields(ik, iv, pk, pv) :
      ik \in {"-", "securityId", "s"}, iv \in IdValues,
      pk \in {"-", "lastTradedPrice", "last"}, pv \in PriceValues }

\* what arrives as encoded text or as an attribute-bearing object
PlainDicts ==
  { Fields(ik, iv, pk, pv) :
      ik \in {"-", "securityId"}, iv \in {Str("1333")},
      pk \in {"-", "lastTradedPrice", "last"},
      pv \in {Str("1642.55"), Str("abc")} }

\* dicts that carry the tick one level down
OuterDicts == {EmptyDict, Fields("-", NoneV, "lastTradedPrice", Num(9950))}

NestedDicts ==
  { Fields(ik, iv, pk, pv) :
      ik \in {"-", "symbol"}, iv \in {Str("500")},
      pk \in {"-", "ltp"}, pv \in {Num(9950), Str("abc")} }

Nests ==
  { [k \in {nk} |-> d] : nk \in {"data", "update"}, d \in NestedDicts }
  \cup { [k \in {"data", "tick"} |->
            IF k = "data" THEN Fields("-", NoneV, "ltp", Num(9950))
            ELSE Fields("symbol", Str("500"), "-", NoneV)] }

Messages ==
  { [form |-> "dict", top |-> t, nest |-> EmptyDict] : t \in TopDicts }
  \cup { [form |-> "dict", top |-> t, nest |-> ns] :
           t \in OuterDicts, ns \in Nests }
  \cup { [form |-> f, top |-> t, nest |-> EmptyDict] :
           f \in {"json", "object"}, t \in PlainDicts }
  \cup { [form |-> "text", top |-> EmptyDict, nest |-> EmptyDict] }

\* lines 171-177 and 183: is the message a dict once json.loads was tried
IsDict(m) == m.form \in {"dict", "json"}

\* `a.get(k1) or a.get(k2) or ...`: the first truthy operand, else the last
RECURSIVE OrChain(_, _, _)
OrChain(d, keys, i) ==
  IF i = Len(keys) THEN DictGet(d, keys[i])
  ELSE Or2(DictGet(d, keys[i]), OrChain(d, keys, i + 1))

\* lines 180-192
TopLevel(m) ==
  IF IsDict(m)
  THEN [security_id |-> OrChain(m.top, IdKeys, 1),
        ltp |-> OrChain(m.top, PriceKeys, 1)]
  ELSE IF m.form = "object"
  THEN [security_id |-> DictGet(m.top, "securityId"),
        ltp |-> DictGet(m.top, "lastTradedPrice")]
  ELSE [security_id |-> NoneV, ltp |-> NoneV]

\* lines 197-203: the loop over the nested keys from index i on
RECURSIVE NestedScan(_, _, _)
NestedScan(m, cur, i) ==
  IF i > Len(NestKeys) THEN cur
  ELSE IF NestKeys[i] \in DOMAIN m.nest /\ ~IsTruthy(cur.security_id)
  THEN LET nested == m.nest[NestKeys[i]]
           found == [security_id |-> OrChain(nested, NestedIdKeys, 1),
                     ltp |-> OrChain(nested, NestedPriceKeys, 1)]
       IN IF IsTruthy(found.security_id) THEN found
          ELSE NestedScan(m, found, i + 1)
  ELSE NestedScan(m, cur, i + 1)

\* lines 194-203
Located(m) ==
  IF ~IsTruthy(TopLevel(m).security_id) /\ IsDict(m)
  THEN NestedScan(m, TopLevel(m), 1)
  ELSE TopLevel(m)

\* lines 208-213: the price after float(), NoneV when absent or not numeric
Coerce(v) ==
  IF v.t = "none" THEN NoneV
  ELSE IF Float(v).ok THEN Num(Float(v).val) ELSE NoneV

\* variant: a tick is emitted when either field resolved
IsCanonicalEither(sid, ltp) == IsTruthy(sid) \/ ltp.t # "none"

\* line 215
IsCanonical(sid, ltp) == IsTruthy(sid) /\ ltp.t # "none"

\* lines 180-215: the canonical tick of a message; ok = FALSE when the
\* message is ignored (line 220)
CanonicalTick(m) ==
  LET f == Located(m)
      sid == IF IsTruthy(f.security_id) THEN Str(ToStr(f.security_id))
             ELSE f.security_id
      ltp == Coerce(f.ltp)
  IN IF IsCanonical(sid, ltp)
     THEN [ok |-> TRUE, security_id |-> sid.s, ltp |-> ltp.n]
     ELSE [ok |-> FALSE, security_id |-> "", ltp |-> 0]

\* ---------------------------------------------------- callback path state
\* security ids of the canonical ticks (str(security_id), line 206)
Instruments == {"1333", "500"}

\* seconds by which the clock advances between two calls of the notifier
ClockSteps == {10, 49, 51}

\* seconds a POST takes (requests.post has timeout=8)
PostDurations == {0, 2}

\* requests.post: a 2xx response, another response, a RequestException
\* (transport error), or an exception that is not a RequestException
PostOutcomes == {"2xx", "non2xx", "RequestException", "Exception"}

NoCall == [result |-> "none", malformed |-> FALSE, tick |-> FALSE,
           sid |-> "", ltp |-> 0, send |-> "none"]

HandlerInit ==
  /\ now = StartTime
  /\ _last_sent = EmptyDict
  /\ latest_ltp = EmptyDict
  /\ events = 0
  /\ lastCall = NoCall
  /\ dispatched = EmptyDict
  /\ sends = EmptyDict
  /\ credErrors = 0

\* variant: the cooldown ends one second early
ThrottledShort(sid) ==
  now - Get(_last_sent, sid, 0) < SEND_INTERVAL_SECONDS - 1

\* lines 67-69: the cooldown test on entry
Throttled(sid) == now - Get(_last_sent, sid, 0) < SEND_INTERVAL_SECONDS

\* line 73
TelegramConfigured == TELEGRAM_BOT_TOKEN /\ TELEGRAM_CHAT_ID

\* lines 66-90: what send_telegram_message does with a tick
SendKind(sid) ==
  IF Throttled(sid) THEN "suppressed"
  ELSE IF ~TelegramConfigured THEN "no_credentials"
  ELSE "post"

\* lines 93-95: the outcomes after which _last_sent is written
RecordsSend(outcome) == outcome = "2xx"

IsException(outcome) == outcome \in {"RequestException", "Exception"}

\* line 98: the exceptions send_telegram_message catches itself
NotifierCatches(outcome) == outcome = "RequestException"

\* line 222: `except Exception` around the whole handler body
HandlerCatches(outcome) == IsException(outcome)

\* how a direct call of send_telegram_message ends
NotifierResult(outcome) ==
  IF IsException(outcome) /\ ~NotifierCatches(outcome)
  THEN "raised" ELSE "returned"

\* how market_feed_handler ends when the POST it caused ended with outcome
HandlerResult(outcome) ==
  IF NotifierResult(outcome) = "raised" /\ ~HandlerCatches(outcome)
  THEN "raised" ELSE "returned"

\* variant: the time is stored on entry, before the cooldown test
LastSentStamped(kind, outcome, sid, t) == Put(_last_sent, sid, t)

\* lines 91-93: `_last_sent[security_id] = time.time()` is the only write of
\* the table, under `if resp.ok:`; t is the time the POST came back
LastSentAfter(kind, outcome, sid, t) ==
  IF kind = "post" /\ RecordsSend(outcome)
  THEN Put(_last_sent, sid, t)
  ELSE _last_sent

\* the start times of the latest two POSTs of an instrument
Remember(q, at) ==
  IF Len(q) = 2 THEN <<q[2], at>> ELSE Append(q, at)

\* lines 66-99: send_telegram_message(sid, ...); call is the record kept of
\* the call, inHandler tells whether market_feed_handler is the caller
SendTelegramMessage(sid, call, inHandler) ==
  \/ /\ SendKind(sid) = "suppressed"
     /\ lastCall' = [call EXCEPT !.send = "suppressed"]
     /\ _last_sent' = LastSentAfter("suppressed", "none", sid, now)
     /\ UNCHANGED <<now, dispatched, sends, credErrors>>
  \/ /\ SendKind(sid) = "no_credentials"
     /\ credErrors' = credErrors + 1
     /\ lastCall' = [call EXCEPT !.send = "no_credentials"]
     /\ _last_sent' = LastSentAfter("no_credentials", "none", sid, now)
     /\ UNCHANGED <<now, dispatched, sends>>
  \/ /\ SendKind(sid) = "post"
     /\ \E outcome \in PostOutcomes, d \in PostDurations :
          /\ now' = now + d
          /\ _last_sent' = LastSentAfter("post", outcome, sid, now + d)
          /\ sends' = IF outcome = "2xx"
                      THEN Put(sends, sid, Get(sends, sid, 0) + 1)
                      ELSE sends
          /\ dispatched' = Put(dispatched, sid,
                               Remember(Get(dispatched, sid, <<>>), now))
          /\ lastCall' = [call EXCEPT
                            !.send = outcome,
                            !.result = IF inHandler
                                       THEN HandlerResult(outcome)
                                       ELSE NotifierResult(outcome)]
     /\ UNCHANGED credErrors

\* --- what a message is, independently of how the handler reads it
IdentifierValues(m) ==
  IF IsDict(m)
  THEN { m.top[k] : k \in DOMAIN m.top \cap Range(IdKeys) }
       \cup UNION { { m.nest[nk][k] :
                        k \in DOMAIN m.nest[nk] \cap Range(NestedIdKeys) } :
                    nk \in DOMAIN m.nest }
  ELSE IF m.form = "object"
  THEN { m.top[k] : k \in DOMAIN m.top \cap {"securityId"} }
  ELSE {}

PriceValuesOf(m) ==
  IF IsDict(m)
  THEN { m.top[k] : k \in DOMAIN m.top \cap Range(PriceKeys) }
       \cup UNION { { m.nest[nk][k] :
                        k \in DOMAIN m.nest[nk] \cap Range(NestedPriceKeys) } :
                    nk \in DOMAIN m.nest }
  ELSE IF m.form = "object"
  THEN { m.top[k] : k \in DOMAIN m.top \cap {"lastTradedPrice"} }
  ELSE {}

\* no identifier, no price, or no price that can be coerced to a number
Malformed(m) ==
  \/ ~\E v \in IdentifierValues(m) : IsTruthy(v)
  \/ ~\E v \in PriceValuesOf(m) : v.t # "none" /\ Float(v).ok

\* ------------------------------------------------ callback path: actions
\* the supervisor is blocked in feed.run_forever(market_feed_handler)
Streaming ==
  /\ pc = "run_forever(handler)" /\ inCall

\* what the handler makes of each message of the model: its canonical tick
\* (or none) next to what the message is
Readings == { [tick |-> CanonicalTick(m), malformed |-> Malformed(m)] :
                m \in Messages }

\* variant: the first price of an instrument is kept (setdefault)
LatestLtpKeepsFirst(sid, ltp) ==
  IF sid \in DOMAIN latest_ltp THEN latest_ltp ELSE Put(latest_ltp, sid, ltp)

\* line 216: `latest_ltp[security_id] = ltp`
LatestLtpAfter(sid, ltp) == Put(latest_ltp, sid, ltp)

\* lines 164-223, with send_telegram_message (lines 66-99) called at 218;
\* the message is any of Messages, taken through its reading
MarketFeedHandler ==
  /\ Streaming
  /\ events < MaxEvents
  /\ events' = events + 1
  /\ \E r \in Readings :
       LET tick == r.tick
           call == [result |-> "returned", malformed |-> r.malformed,
                    tick |-> tick.ok, sid |-> tick.security_id,
                    ltp |-> tick.ltp, send |-> "none"]
       IN IF ~tick.ok
          THEN /\ lastCall' = call
               /\ UNCHANGED <<now, _last_sent, latest_ltp, dispatched, sends,
                              credErrors>>
          ELSE /\ latest_ltp' = LatestLtpAfter(tick.security_id, tick.ltp)
               /\ SendTelegramMessage(tick.security_id, call, TRUE)
  /\ UNCHANGED <<supVars>>

\* the next message arrives a cooldown later
CooldownPasses ==
  /\ Streaming
  /\ now + SEND_INTERVAL_SECONDS <= StartTime + MaxTime
  /\ now' = now + SEND_INTERVAL_SECONDS
  /\ UNCHANGED <<supVars, _last_sent, latest_ltp, events, lastCall,
                 dispatched, sends, credErrors>>

\* lines 66-99: send_telegram_message called with a canonical tick
NotifierCall ==
  /\ Streaming
  /\ events < MaxEvents
  /\ events' = events + 1
  /\ \E sid \in Instruments :
       SendTelegramMessage(sid, [result |-> "returned", malformed |-> FALSE,
                                 tick |-> TRUE, sid |-> sid, ltp |-> 0,
                                 send |-> "none"],
                           FALSE)
  /\ UNCHANGED <<supVars, latest_ltp>>

\* time passes between two calls
ClockAdvance ==
  /\ Streaming
  /\ \E dt \in ClockSteps :
       /\ now + dt <= StartTime + MaxTime
       /\ now' = now + dt
  /\ UNCHANGED <<supVars, _last_sent, latest_ltp, events, lastCall,
                 dispatched, sends, credErrors>>

\* ------------------------------------------------------- supervisor: Init
Init ==
  /\ _running = TRUE
  /\ creds \in CredCases
  /\ pkg \in Packages
  /\ feedMethods \in FeedShapes
  /\ pc = "start"
  /\ module_obj = None /\ FeedClass = None
  /\ feed = None /\ started = FALSE
  /\ backoff = INITIAL_BACKOFF
  /\ inCall = FALSE
  /\ attemptNo = 0
  /\ sleeps = <<>> /\ lastSleep = 0
  /\ sleptSinceCtor = 0 /\ unreleased = 0
  /\ discovered = FALSE
  /\ ctorCalls = <<>> /\ runCalls = <<>>
  /\ ctorResults = <<>> /\ runResults = <<>>
  /\ everCtor = FALSE
  /\ sigAttempt = -1
  /\ ctorAfterSig = FALSE /\ runAfterSig = FALSE
  /\ lastOutcome = "none" /\ prevOutcome = "none"
  /\ backoffAtReturn = -1
  /\ HandlerInit

\* the attempt, or the function, has ended with `what`
Outcome(what) ==
  /\ lastOutcome' = what
  /\ prevOutcome' = lastOutcome

\* start_market_feed returns or falls off its end
Finish(why) ==
  /\ pc' = "done"
  /\ Outcome(why)

\* lines 229-231
CheckCredentials ==
  /\ pc = "start"
  /\ IF ~CLIENT_ID \/ ~ACCESS_TOKEN
     THEN Finish("config_missing")
     ELSE pc' = "locate" /\ UNCHANGED <<lastOutcome, prevOutcome>>
  /\ UNCHANGED <<hVars, _running, creds, pkg, feedMethods, module_obj, FeedClass,
                 feed, unreleased, started, backoff, inCall, attemptNo, sleeps,
                 lastSleep, sleptSinceCtor, backoffAtReturn, discovered, ctorCalls, ctorResults, runCalls, runResults, everCtor,
                 sigAttempt, ctorAfterSig, runAfterSig>>

\* variant: the test asks for a class without a module, which never occurs
DiscoveryFailedWrongTest(m, F) == m = None /\ F # None

\* line 234
DiscoveryFailed(m, F) == m = None /\ F = None

\* lines 233-253
Discover ==
  /\ pc = "locate"
  /\ discovered' = TRUE
  /\ module_obj' = locate_feed_class(pkg)[1]
  /\ FeedClass' = locate_feed_class(pkg)[2]
  /\ IF DiscoveryFailed(module_obj', FeedClass')
     THEN Finish("discovery_failed") /\ UNCHANGED backoff
     ELSE /\ backoff' = INITIAL_BACKOFF
          /\ pc' = "loop_test"
          /\ UNCHANGED <<lastOutcome, prevOutcome>>
  /\ UNCHANGED <<hVars, _running, creds, pkg, feedMethods, feed, unreleased, started, inCall,
                 attemptNo, sleeps, lastSleep, sleptSinceCtor, backoffAtReturn, ctorCalls, ctorResults, runCalls, runResults, everCtor,
                 sigAttempt, ctorAfterSig, runAfterSig>>

\* variant: `while True:`
LoopConditionAlways == TRUE

\* line 254: the condition of `while _running:`
LoopCondition == _running

\* line 254 `while _running:` with lines 257-259 and 272 of the body; when
\* the test fails, line 364
LoopTest ==
  /\ pc = "loop_test"
  /\ IF LoopCondition
     THEN /\ attemptNo < MaxAttempts
          /\ attemptNo' = attemptNo + 1
          /\ feed' = None
          /\ UNCHANGED unreleased
          /\ ctorCalls' = <<>> /\ runCalls' = <<>>
          /\ ctorResults' = <<>> /\ runResults' = <<>>
          /\ pc' = IF Truthy(FeedClass) THEN "ctor_version" ELSE "ctor_module"
          /\ UNCHANGED <<lastOutcome, prevOutcome>>
     ELSE /\ Finish("stopped")
          /\ UNCHANGED <<attemptNo, feed, unreleased, ctorCalls, ctorResults, runCalls, runResults>>
  /\ UNCHANGED <<hVars, _running, creds, pkg, feedMethods, module_obj, FeedClass,
                 started, backoff, inCall, sleeps, lastSleep, sleptSinceCtor, backoffAtReturn, discovered,
                 everCtor, sigAttempt, ctorAfterSig, runAfterSig>>

\* bookkeeping common to every constructor call
CtorCalled(site) ==
  /\ ctorCalls' = Append(ctorCalls, site)
  /\ sleptSinceCtor' = 0
  /\ everCtor' = TRUE
  /\ ctorAfterSig' = (ctorAfterSig \/ ~_running)

CtorFrame ==
  UNCHANGED <<hVars, _running, creds, pkg, feedMethods, module_obj, FeedClass,
              started, backoff, inCall, attemptNo, sleeps, lastSleep,
              backoffAtReturn, discovered, runCalls, runResults, sigAttempt,
              runAfterSig, lastOutcome, prevOutcome>>

\* how a constructor call that ended with `outcome` leaves `feed` bound
\* (lines 263, 267, 271, 276, 278, 283) and the handles in existence
CtorEnded(outcome) ==
  /\ ctorResults' = Append(ctorResults, outcome)
  /\ IF outcome = "returns"
     THEN feed' = "handle" /\ unreleased' = unreleased + 1
     ELSE feed' = None /\ UNCHANGED unreleased

\* variant: `except Exception:` where line 265 has `except TypeError:`
RetriesWithoutVersionAlways(outcome) == outcome # "returns"

\* line 265: only a TypeError leads to the signature without version
RetriesWithoutVersion(outcome) == outcome = "TypeError"

\* lines 262-265, 269-271: FeedClass(CLIENT_ID, ACCESS_TOKEN, instruments,
\* version="2.0")
CtorVersion ==
  /\ pc = "ctor_version"
  /\ CtorCalled("FeedClass(version)")
  /\ \E outcome \in {"returns", "TypeError", "Exception"} :
       /\ CtorEnded(outcome)
       /\ pc' = IF RetriesWithoutVersion(outcome)
                THEN "ctor_plain" ELSE "chk_feed"
  /\ CtorFrame

\* lines 265-271: FeedClass(CLIENT_ID, ACCESS_TOKEN, instruments); whatever
\* it raises is caught at line 269
CtorPlain ==
  /\ pc = "ctor_plain"
  /\ CtorCalled("FeedClass")
  /\ \E outcome \in {"returns", "TypeError", "Exception"} :
       CtorEnded(outcome)
  /\ pc' = "chk_feed"
  /\ CtorFrame

\* lines 273-283: only a module, or a falsy FeedClass
CtorModule ==
  /\ pc = "ctor_module"
  /\ \/ /\ ModuleHasAttr(pkg, module_obj, "DhanFeed")
        /\ CtorCalled("module.DhanFeed")
        /\ \E outcome \in {"returns", "Exception"} : CtorEnded(outcome)
     \/ /\ ~ModuleHasAttr(pkg, module_obj, "DhanFeed")
        /\ ModuleHasAttr(pkg, module_obj, "MarketFeed")
        /\ CtorCalled("module.MarketFeed")
        /\ \E outcome \in {"returns", "Exception"} : CtorEnded(outcome)
     \/ /\ ~ModuleHasAttr(pkg, module_obj, "DhanFeed")
        /\ ~ModuleHasAttr(pkg, module_obj, "MarketFeed")
        /\ UNCHANGED <<feed, unreleased, ctorCalls, ctorResults, everCtor,
                       ctorAfterSig, sleptSinceCtor>>
  /\ pc' = "chk_feed"
  /\ CtorFrame

\* lines 285-287 and 296
CheckFeed ==
  /\ pc = "chk_feed"
  /\ IF feed = None
     THEN Finish("no_feed") /\ UNCHANGED started
     ELSE /\ started' = FALSE
          /\ pc' = "chk_run_forever"
          /\ UNCHANGED <<lastOutcome, prevOutcome>>
  /\ UNCHANGED <<hVars, _running, creds, pkg, feedMethods, module_obj, FeedClass,
                 feed, unreleased, backoff, inCall, attemptNo, sleeps, lastSleep, sleptSinceCtor, backoffAtReturn,
                 discovered, ctorCalls, ctorResults, runCalls, runResults, everCtor, sigAttempt,
                 ctorAfterSig, runAfterSig>>

\* ------------------------------------------------------- run-style calls
\* the run-style call sites of lines 297-341, in source order
RunSites == <<"run_forever(handler)", "run_forever(on_message=)",
              "run_forever(callback=)", "run(on_message=)", "run(handler)",
              "start(handler)", "start(on_message=)", "connect()",
              "listen(handler)">>

RunSiteSet == {RunSites[i] : i \in 1..Len(RunSites)}

\* the `if` that follows the block a call site belongs to
BlockExit(site) ==
  CASE site \in {"run_forever(handler)", "run_forever(on_message=)",
                 "run_forever(callback=)"} -> "chk_run"
    [] site \in {"run(on_message=)", "run(handler)"} -> "chk_start"
    [] site \in {"start(handler)", "start(on_message=)"} -> "chk_listen"
    [] site \in {"connect()", "listen(handler)"} -> "chk_started"

\* where control goes when the call at `site` returns normally: connect()
\* is followed by listen(), every other return sets started = True
AfterReturn(site) ==
  IF site = "connect()" THEN "listen(handler)" ELSE BlockExit(site)

SetsStarted(site) == site # "connect()"

\* variant: after run_forever(handler) the on_message= convention is left out
OnTypeErrorSkips(site) ==
  CASE site = "run_forever(handler)" -> "run_forever(callback=)"
    [] site = "run_forever(on_message=)" -> "run_forever(callback=)"
    [] site = "run(on_message=)" -> "run(handler)"
    [] site = "start(handler)" -> "start(on_message=)"
    [] OTHER -> BlockExit(site)

\* `except TypeError:` clauses: the convention tried next, if any
OnTypeError(site) ==
  CASE site = "run_forever(handler)" -> "run_forever(on_message=)"
    [] site = "run_forever(on_message=)" -> "run_forever(callback=)"
    [] site = "run(on_message=)" -> "run(handler)"
    [] site = "start(handler)" -> "start(on_message=)"
    [] OTHER -> BlockExit(site)

\* the call sites wrapped in `except Exception: started = False`
\* (lines 312, 322, 332, 340); an exception raised anywhere else leaves the
\* inner try and reaches `except Exception as ex` at line 357
Swallows(site) ==
  site \in {"run_forever(callback=)", "run(handler)", "start(on_message=)",
            "connect()", "listen(handler)"}

RunFrame ==
  UNCHANGED <<hVars, _running, creds, pkg, feedMethods, module_obj, FeedClass,
              feed, unreleased, backoff, attemptNo, sleeps, lastSleep, sleptSinceCtor, backoffAtReturn, discovered,
              ctorCalls, ctorResults, everCtor, sigAttempt, ctorAfterSig>>

\* line 298
CheckRunForever ==
  /\ pc = "chk_run_forever"
  /\ pc' = IF "run_forever" \in feedMethods
           THEN "run_forever(handler)" ELSE "chk_run"
  /\ UNCHANGED <<started, inCall, runCalls, runResults, runAfterSig, lastOutcome, prevOutcome>>
  /\ RunFrame

\* line 314
CheckRun ==
  /\ pc = "chk_run"
  /\ pc' = IF ~started /\ "run" \in feedMethods
           THEN "run(on_message=)" ELSE "chk_start"
  /\ UNCHANGED <<started, inCall, runCalls, runResults, runAfterSig, lastOutcome, prevOutcome>>
  /\ RunFrame

\* line 324
CheckStart ==
  /\ pc = "chk_start"
  /\ pc' = IF ~started /\ "start" \in feedMethods
           THEN "start(handler)" ELSE "chk_listen"
  /\ UNCHANGED <<started, inCall, runCalls, runResults, runAfterSig, lastOutcome, prevOutcome>>
  /\ RunFrame

\* line 335
CheckConnectListen ==
  /\ pc = "chk_listen"
  /\ pc' = IF ~started /\ "connect" \in feedMethods /\ "listen" \in feedMethods
           THEN "connect()" ELSE "chk_started"
  /\ UNCHANGED <<started, inCall, runCalls, runResults, runAfterSig, lastOutcome, prevOutcome>>
  /\ RunFrame

\* the call is entered; it blocks until one of the four actions below
RunCallInvoke ==
  /\ pc \in RunSiteSet /\ ~inCall
  /\ inCall' = TRUE
  /\ runCalls' = Append(runCalls, pc)
  /\ runAfterSig' = (runAfterSig \/ ~_running)
  /\ UNCHANGED <<pc, started, runResults, lastOutcome, prevOutcome>>
  /\ RunFrame

\* the call returns without raising
RunCallReturns ==
  /\ pc \in RunSiteSet /\ inCall
  /\ inCall' = FALSE
  /\ started' = IF SetsStarted(pc) THEN TRUE ELSE started
  /\ pc' = AfterReturn(pc)
  /\ runResults' = Append(runResults, "returns")
  /\ UNCHANGED <<runCalls, runAfterSig, lastOutcome, prevOutcome>>
  /\ RunFrame

\* the call raises TypeError (a signature mismatch, or a TypeError from
\* inside the running method: Python cannot tell them apart)
RunCallTypeError ==
  /\ pc \in RunSiteSet /\ inCall
  /\ inCall' = FALSE
  /\ started' = FALSE
  /\ pc' = OnTypeError(pc)
  /\ runResults' = Append(runResults, "TypeError")
  /\ UNCHANGED <<runCalls, runAfterSig, lastOutcome, prevOutcome>>
  /\ RunFrame

\* the call raises an Exception that is not a TypeError
RunCallRaises ==
  /\ pc \in RunSiteSet /\ inCall
  /\ inCall' = FALSE
  /\ started' = FALSE
  /\ IF Swallows(pc)
     THEN pc' = BlockExit(pc) /\ UNCHANGED <<lastOutcome, prevOutcome>>
     ELSE pc' = "except" /\ Outcome("raised")
  /\ runResults' = Append(runResults, "Exception")
  /\ UNCHANGED <<runCalls, runAfterSig>>
  /\ RunFrame

\* lines 353-355 and 364: KeyboardInterrupt raised out of the call
RunCallInterrupted ==
  /\ pc \in RunSiteSet /\ inCall
  /\ inCall' = FALSE
  /\ Finish("interrupted")
  /\ runResults' = Append(runResults, "KeyboardInterrupt")
  /\ UNCHANGED <<started, runCalls, runAfterSig>>
  /\ RunFrame

\* variant: a normal return keeps the backoff reached so far
BackoffKept(b) == b

\* ------------------------------------------------- after the run-style call
\* line 345
BackoffAfterReturn(b) == INITIAL_BACKOFF

\* variant: the pause is dropped
SleepTimeNone(b) == 0

\* variant: a fixed one-second pause, whatever the backoff
SleepTimeFixed(b) == INITIAL_BACKOFF

\* line 359
SleepTime(b) == Min(MAX_BACKOFF, b)

\* variant: the cap is tested before the doubling, not applied after it
NextBackoffCapFirst(b) ==
  IF b >= MAX_BACKOFF THEN MAX_BACKOFF
  ELSE IF b > 0 THEN b * 2 ELSE INITIAL_BACKOFF

\* variant: the doubling is not capped
NextBackoffUncapped(b) == IF b > 0 THEN b * 2 ELSE INITIAL_BACKOFF

\* line 362
NextBackoff(b) == Min(MAX_BACKOFF, IF b > 0 THEN b * 2 ELSE INITIAL_BACKOFF)

\* lines 343-351; time.sleep(1) starts here
CheckStarted ==
  /\ pc = "chk_started"
  /\ IF started
     THEN /\ backoff' = BackoffAfterReturn(backoff)
          /\ backoffAtReturn' = backoff
          /\ lastSleep' = 1
          /\ sleptSinceCtor' = sleptSinceCtor + 1
          /\ sleeps' = <<>>
          /\ Outcome("returned")
          /\ pc' = "sleep_1"
     ELSE /\ Finish("no_entry_point")
          /\ UNCHANGED <<backoff, lastSleep, sleptSinceCtor, backoffAtReturn, sleeps>>
  /\ UNCHANGED <<hVars, _running, creds, pkg, feedMethods, module_obj, FeedClass,
                 feed, unreleased, started, inCall, attemptNo, discovered, ctorCalls, ctorResults,
                 runCalls, runResults, everCtor, sigAttempt, ctorAfterSig, runAfterSig>>

\* line 348 is over, back to the loop test
WakeAfterReturn ==
  /\ pc = "sleep_1"
  /\ pc' = "loop_test"
  /\ UNCHANGED <<hVars, _running, creds, pkg, feedMethods, module_obj, FeedClass,
                 feed, unreleased, started, backoff, inCall, attemptNo, sleeps, lastSleep, sleptSinceCtor, backoffAtReturn,
                 discovered, ctorCalls, ctorResults, runCalls, runResults, everCtor, sigAttempt,
                 ctorAfterSig, runAfterSig, lastOutcome, prevOutcome>>

\* lines 357-361; time.sleep(sleep_time) starts here
ExceptHandler ==
  /\ pc = "except"
  /\ lastSleep' = SleepTime(backoff)
  /\ sleptSinceCtor' = sleptSinceCtor + SleepTime(backoff)
  /\ sleeps' = Append(sleeps, SleepTime(backoff))
  /\ pc' = "backoff_sleep"
  /\ UNCHANGED <<hVars, _running, creds, pkg, feedMethods, module_obj, FeedClass,
                 feed, unreleased, started, backoff, inCall, attemptNo, discovered,
                 ctorCalls, ctorResults, runCalls, runResults, everCtor, sigAttempt, ctorAfterSig,
                 runAfterSig, lastOutcome, prevOutcome, backoffAtReturn>>

\* line 361 is over; line 362, back to the loop test
WakeAfterBackoff ==
  /\ pc = "backoff_sleep"
  /\ backoff' = NextBackoff(backoff)
  /\ pc' = "loop_test"
  /\ UNCHANGED <<hVars, _running, creds, pkg, feedMethods, module_obj, FeedClass,
                 feed, unreleased, started, inCall, attemptNo, sleeps, lastSleep, sleptSinceCtor, backoffAtReturn,
                 discovered, ctorCalls, ctorResults, runCalls, runResults, everCtor, sigAttempt,
                 ctorAfterSig, runAfterSig, lastOutcome, prevOutcome>>

\* lines 370-376: SIGINT or SIGTERM, delivered between any two steps while
\* the program runs
SignalHandler ==
  /\ _running /\ pc # "done"
  /\ _running' = FALSE
  /\ sigAttempt' = attemptNo
  /\ UNCHANGED <<hVars, creds, pkg, feedMethods, pc, module_obj, FeedClass, feed, unreleased,
                 started, backoff, inCall, attemptNo, sleeps, lastSleep, sleptSinceCtor, backoffAtReturn,
                 discovered, ctorCalls, ctorResults, runCalls, runResults, everCtor, ctorAfterSig,
                 runAfterSig, lastOutcome, prevOutcome>>

Next ==
  \/ CheckCredentials
  \/ Discover
  \/ LoopTest
  \/ CtorVersion
  \/ CtorPlain
  \/ CtorModule
  \/ CheckFeed
  \/ CheckRunForever
  \/ CheckRun
  \/ CheckStart
  \/ CheckConnectListen
  \/ RunCallInvoke
  \/ RunCallReturns
  \/ RunCallTypeError
  \/ RunCallRaises
  \/ RunCallInterrupted
  \/ CheckStarted
  \/ WakeAfterReturn
  \/ ExceptHandler
  \/ WakeAfterBackoff
  \/ SignalHandler

vars == <<supVars, hVars>>

Spec == Init /\ [][Next]_vars

\* ------------------------------------------- the callback path on its own
\* dhanhq.MarketFeed was found and constructed, and the first attempt is
\* blocked in feed.run_forever(market_feed_handler), which delivers the
\* messages one at a time
InitHandler ==
  /\ _running = TRUE
  /\ creds \in { c \in CredCases : {"DHAN_CLIENT_ID", "DHAN_ACCESS_TOKEN"} \subseteq c }
  /\ pkg \in { p \in Packages : p.rootAttrs["MarketFeed"] = "class" }
  /\ feedMethods = {"run_forever"}
  /\ pc = "run_forever(handler)"
  /\ module_obj = locate_feed_class(pkg)[1]
  /\ FeedClass = locate_feed_class(pkg)[2]
  /\ feed = "handle" /\ started = FALSE
  /\ backoff = INITIAL_BACKOFF
  /\ inCall = TRUE
  /\ attemptNo = 1
  /\ sleeps = <<>> /\ lastSleep = 0
  /\ sleptSinceCtor = 0 /\ unreleased = 1
  /\ discovered = TRUE
  /\ ctorCalls = <<"FeedClass(version)">>
  /\ ctorResults = <<"returns">>
  /\ runCalls = <<"run_forever(handler)">>
  /\ runResults = <<>>
  /\ everCtor = TRUE
  /\ sigAttempt = -1
  /\ ctorAfterSig = FALSE /\ runAfterSig = FALSE
  /\ lastOutcome = "none" /\ prevOutcome = "none"
  /\ backoffAtReturn = -1
  /\ HandlerInit

NextHandler ==
  \/ MarketFeedHandler
  \/ CooldownPasses

\* inbound events through market_feed_handler, a cooldown or less apart
SpecHandler == InitHandler /\ [][NextHandler]_vars

NextNotifier ==
  \/ NotifierCall
  \/ ClockAdvance

\* canonical ticks handed to send_telegram_message over a fine clock
SpecNotifier == InitHandler /\ [][NextNotifier]_vars

\* =================================================================== claims

\* C1: for one instrument, at most one POST to the notification endpoint is
\* made within any window of SEND_INTERVAL_SECONDS, whatever the outcome of
\* each POST: two consecutive POSTs for the same security id start at least
\* SEND_INTERVAL_SECONDS apart.  (SpecNotifier)
C1_OneDispatchPerWindow ==
  \A sid \in DOMAIN dispatched :
    Len(dispatched[sid]) = 2 =>
      dispatched[sid][2] - dispatched[sid][1] >= SEND_INTERVAL_SECONDS

\* C2: a malformed or incomplete event (no identifier, no price, a price
\* that is not numeric) makes market_feed_handler write nothing to
\* latest_ltp, not call the notifier, and return; and no call of the
\* handler ends by raising, whatever the POST inside the notifier did.
\* (SpecHandler)
C2_MalformedDroppedNoRaise ==
  /\ [][(events' = events + 1 /\ lastCall'.malformed) =>
          /\ latest_ltp' = latest_ltp
          /\ _last_sent' = _last_sent
          /\ dispatched' = dispatched
          /\ credErrors' = credErrors
          /\ now' = now
          /\ ~lastCall'.tick
          /\ lastCall'.send = "none"
          /\ lastCall'.result = "returned"]_vars
  /\ [](lastCall.result # "raised")

\* a malformed event was handled after a canonical tick had been stored
C2_Witness ==
  /\ lastCall.malformed /\ lastCall.result = "returned"
  /\ events >= 2
  /\ "1333" \in DOMAIN latest_ltp

\* the sleep durations of consecutive failed attempts
BackoffSchedule == <<1, 2, 4, 8, 16, 32>>
ScheduledSleep(i) == IF i <= Len(BackoffSchedule) THEN BackoffSchedule[i] ELSE 60

\* C3: over consecutive failed attempts the sleeps are 1, 2, 4, 8, 16, 32,
\* 60, 60, 60, ... and backoff, once doubled and capped, is the duration of
\* the next one.  (Spec)
C3_BackoffSequence ==
  /\ \A i \in 1..Len(sleeps) : sleeps[i] = ScheduledSleep(i)
  /\ pc \notin {"start", "locate", "backoff_sleep"} =>
       backoff = ScheduledSleep(Len(sleeps) + 1)
  /\ pc = "backoff_sleep" => backoff = ScheduledSleep(Len(sleeps))

\* nine failures in a row: 1, 2, 4, 8, 16, 32, 60, 60, 60
C3_Witness ==
  /\ Len(sleeps) = 9
  /\ sleeps[6] = 32 /\ sleeps[7] = 60 /\ sleeps[9] = 60

\* C4: when a run-style call has returned normally, backoff is
\* INITIAL_BACKOFF from then on until the next attempt ends, whatever it was
\* before, and a failure of the next attempt sleeps 1 second.  (Spec)
C4_ReturnResetsBackoff ==
  /\ lastOutcome = "returned" => backoff = INITIAL_BACKOFF
  /\ (pc = "backoff_sleep" /\ prevOutcome = "returned") => lastSleep = 1

\* backoff had reached the cap, the call returned, the next attempt failed
C4_Witness ==
  /\ pc = "backoff_sleep" /\ prevOutcome = "returned"
  /\ backoffAtReturn = MAX_BACKOFF
  /\ lastSleep = 1

\* C5: a failed construction (no constructor signature gave a handle) does
\* not end the supervisor loop.  (Spec)
C5_ConstructionFailureRetried ==
  pc = "done" => lastOutcome # "no_feed"

\* C6: a handle on which no run-style call could be made does not end the
\* supervisor loop.  (Spec)
C6_NoEntryPointRetried ==
  pc = "done" => lastOutcome # "no_entry_point"

\* C7 as stated: after a run-style call raised, the next attempt starts
\* with backoff reset to its initial value, as after a normal return.
\* (Spec)
C7_RaiseResetsBackoff ==
  (lastOutcome = "raised" /\ pc = "loop_test") => backoff = INITIAL_BACKOFF

\* C7 amended: when the exception of a run-style call reaches the
\* supervisor, backoff is not reset: the supervisor sleeps
\* min(MAX_BACKOFF, backoff), then doubles backoff up to MAX_BACKOFF, and
\* only then tests the loop condition again.  (Spec)
C7_RaiseBacksOff ==
  lastOutcome = "raised" =>
    /\ pc # "sleep_1"
    /\ pc = "backoff_sleep" => lastSleep = Min(MAX_BACKOFF, backoff)
    /\ pc \notin {"except", "backoff_sleep"} =>
         /\ lastSleep >= INITIAL_BACKOFF
         /\ backoff = Min(MAX_BACKOFF, 2 * lastSleep)

\* two raised run-style calls in a row: the second one slept 2 seconds
C7_Witness ==
  /\ lastOutcome = "raised" /\ prevOutcome = "raised"
  /\ pc = "loop_test" /\ lastSleep = 2 /\ backoff = 4

\* C8: when locate_feed_class finds neither a module nor a class,
\* start_market_feed ends there: no sleep, no constructor call, no
\* run-style call, no loop iteration.  (Spec)
C8_DiscoveryFailureIsFinal ==
  (discovered /\ locate_feed_class(pkg) = <<None, None>>) =>
    /\ pc = "done" /\ lastOutcome = "discovery_failed"
    /\ attemptNo = 0
    /\ lastSleep = 0 /\ sleeps = <<>>
    /\ ~everCtor /\ ctorCalls = <<>>
    /\ runCalls = <<>> /\ ~inCall

C8_Witness ==
  /\ discovered /\ locate_feed_class(pkg) = <<None, None>>
  /\ CLIENT_ID /\ ACCESS_TOKEN
  /\ pc = "done"

\* C9 as stated: once _running is False no constructor call and no
\* run-style call is started any more, wherever the signal arrived.  (Spec)
C9_NoCallAfterSignal ==
  ~_running => (~ctorAfterSig /\ ~runAfterSig)

\* C9 amended: once _running is False no further loop iteration begins (the
\* iteration whose loop test had passed before the signal may still make
\* its constructor and run-style calls), _running stays False, and the
\* terminated supervisor does nothing more.  (Spec)
C9_NoAttemptAfterSignal ==
  /\ [](~_running => attemptNo = sigAttempt)
  /\ [][~_running => ~_running']_vars
  /\ [][pc = "done" => (pc' = "done" /\ attemptNo' = attemptNo
                         /\ ctorCalls' = ctorCalls
                         /\ runCalls' = runCalls)]_vars

\* the signal arrived inside an attempt, which went on to make a run-style
\* call; the loop test that followed ended the loop
C9_Witness ==
  /\ ~_running /\ runAfterSig
  /\ pc = "done" /\ lastOutcome = "stopped"
  /\ attemptNo = sigAttempt

\* C10: with any of the four credentials absent the program stops at
\* startup: no discovery, no loop iteration, no constructor or run-style
\* call.  (Spec)
C10_MissingCredentialStopsStartup ==
  creds # CredNames =>
    /\ ~discovered
    /\ attemptNo = 0
    /\ ~everCtor /\ runCalls = <<>>
    /\ pc \in {"start", "done"}

\* the version argument each constructor call site passes (lines 263, 267,
\* 276, 278)
VersionOf(site) == IF site = "FeedClass(version)" THEN "2.0" ELSE "unspecified"

\* the candidate order C11 speaks of
VersionCandidates == <<"unspecified", "1", "v1", "2.0", "v2">>

\* C11 as stated: within an attempt the constructor is tried with the
\* version candidates in the order unspecified, "1", "v1", "2.0", "v2": the
\* i-th constructor call of the attempt carries the i-th candidate.  (Spec)
C11_CandidateOrder ==
  Truthy(FeedClass) =>
    \A i \in 1..Len(ctorCalls) :
      /\ i <= Len(VersionCandidates)
      /\ VersionOf(ctorCalls[i]) = VersionCandidates[i]

\* C11 amended: with a feed class, an attempt makes at most two constructor
\* calls, first with version="2.0" and then without a version; the second
\* is made exactly when the first raised TypeError; any other exception of
\* the first ends construction with no handle and no further candidate; no
\* candidate is tried twice in an attempt.  (Spec)
C11_VersionThenPlain ==
  Truthy(FeedClass) =>
    /\ ctorCalls \in {<<>>, <<"FeedClass(version)">>,
                      <<"FeedClass(version)", "FeedClass">>}
    /\ Len(ctorResults) = Len(ctorCalls)
    /\ Len(ctorCalls) = 2 => ctorResults[1] = "TypeError"
    /\ (Len(ctorCalls) = 1 /\ ctorResults[1] = "TypeError") =>
         pc = "ctor_plain"
    /\ (Len(ctorCalls) = 1 /\ ctorResults[1] = "Exception") =>
         /\ feed = None
         /\ pc \in {"chk_feed", "done"}
         /\ pc = "done" => lastOutcome = "no_feed"

\* a later attempt in which version="2.0" raised TypeError and the call
\* without version returned a handle
C11_Witness ==
  /\ attemptNo >= 2
  /\ ctorCalls = <<"FeedClass(version)", "FeedClass">>
  /\ ctorResults = <<"TypeError", "returns">>
  /\ feed = "handle"

\* C12: a run-style call that raised anything but a parameter mismatch is
\* the last call made on the handle in that attempt, and what it raised
\* reaches the supervisor: the attempt goes to the backoff branch (and from
\* there to the loop test, which a signal may end).  (Spec)
C12_RaiseIsTheOutcome ==
  \A i \in 1..Len(runResults) :
    runResults[i] = "Exception" =>
      /\ i = Len(runCalls)
      /\ \/ pc \in {"except", "backoff_sleep", "loop_test"}
         \/ pc = "done" /\ lastOutcome = "stopped"

\* the name of a close/disconnect operation on the handle
ReleaseOps == {"close", "disconnect"}

\* C13: when the client exposes a close/disconnect operation, the handle of
\* an attempt has been released before the next constructor call, so no
\* more than one un-released handle exists at any time.  (Spec)
C13_HandleReleased ==
  feedMethods \cap ReleaseOps # {} =>
    /\ unreleased <= 1
    /\ pc \in {"ctor_version", "ctor_plain", "ctor_module"} => unreleased = 0

\* C14: _last_sent changes only in a call of the notifier that made a POST,
\* and then only in the entry of that instrument; a suppressed call, a call
\* that returned early for missing Telegram credentials and a handler call
\* on a message that is no tick leave every entry as it was.  (SpecHandler)
C14_LastSentWrittenOnDispatch ==
  [][/\ _last_sent' # _last_sent =>
          /\ events' = events + 1
          /\ lastCall'.tick
          /\ lastCall'.send \in PostOutcomes
          /\ \A k \in DOMAIN _last_sent \ {lastCall'.sid} :
               /\ k \in DOMAIN _last_sent'
               /\ _last_sent'[k] = _last_sent[k]
     /\ (events' = events + 1 /\ lastCall'.send \notin PostOutcomes) =>
          _last_sent' = _last_sent]_vars

\* a tick was suppressed while the table holds an entry for its instrument
C14_Witness ==
  /\ lastCall.tick /\ lastCall.send = "suppressed"
  /\ lastCall.sid \in DOMAIN _last_sent
  /\ events >= 2

\* C15: after a call of the notifier that was not suppressed, a POST has
\* been made and _last_sent holds, for that instrument, a time no earlier
\* than the start of that POST, whatever the outcome of the POST.  Stated
\* for complete Telegram credentials.  (SpecNotifier)
C15_AttemptIsRecorded ==
  (TelegramConfigured /\ lastCall.tick /\ lastCall.send # "suppressed") =>
    /\ lastCall.send \in PostOutcomes
    /\ lastCall.sid \in DOMAIN dispatched
    /\ lastCall.sid \in DOMAIN _last_sent
    /\ _last_sent[lastCall.sid] >=
         dispatched[lastCall.sid][Len(dispatched[lastCall.sid])]

\* C16: a handler call that found a canonical tick leaves latest_ltp equal
\* to the table before it with the tick's price stored under the tick's
\* security id, whether the alert was suppressed, failed or sent; every
\* other step leaves latest_ltp unchanged.  (SpecHandler)
C16_LatestLtpIsLatestTick ==
  [][IF events' = events + 1 /\ lastCall'.tick
     THEN /\ DOMAIN latest_ltp' = DOMAIN latest_ltp \cup {lastCall'.sid}
          /\ latest_ltp'[lastCall'.sid] = lastCall'.ltp
          /\ \A k \in DOMAIN latest_ltp \ {lastCall'.sid} :
               latest_ltp'[k] = latest_ltp[k]
     ELSE latest_ltp' = latest_ltp]_vars

\* after an alert had been sent, a tick priced 99.50 whose alert was
\* suppressed left its price in the table
C16_Witness ==
  /\ lastCall.tick /\ lastCall.send = "suppressed"
  /\ lastCall.ltp = 9950
  /\ latest_ltp[lastCall.sid] = 9950
  /\ sends # EmptyDict

\* the method a call site calls (lines 301-338)
MethodOf(site) ==
  CASE site \in {"run_forever(handler)", "run_forever(on_message=)",
                 "run_forever(callback=)"} -> "run_forever"
    [] site \in {"run(on_message=)", "run(handler)"} -> "run"
    [] site \in {"start(handler)", "start(on_message=)"} -> "start"
    [] site = "connect()" -> "connect"
    [] site = "listen(handler)" -> "listen"

\* how a call site passes market_feed_handler (lines 301-338)
ConventionOf(site) ==
  CASE site \in {"run_forever(handler)", "run(handler)", "start(handler)",
                 "listen(handler)"} -> "positional"
    [] site \in {"run_forever(on_message=)", "run_forever(callback=)",
                 "run(on_message=)", "start(on_message=)"} -> "named"
    [] site = "connect()" -> "none"

\* position of a call site in the source
SiteIndex(site) ==
  CASE site = "run_forever(handler)" -> 1
    [] site = "run_forever(on_message=)" -> 2
    [] site = "run_forever(callback=)" -> 3
    [] site = "run(on_message=)" -> 4
    [] site = "run(handler)" -> 5
    [] site = "start(handler)" -> 6
    [] site = "start(on_message=)" -> 7
    [] site = "connect()" -> 8
    [] site = "listen(handler)" -> 9

\* the `if hasattr(...)` block a call site stands in: connect() and
\* listen() share the block of line 335
GroupOf(site) ==
  IF MethodOf(site) \in {"connect", "listen"}
  THEN "connect+listen" ELSE MethodOf(site)

\* the handle has the attributes the block of the call site asks for
\* (lines 298, 314, 324, 335)
SiteTried(site) ==
  IF GroupOf(site) = "connect+listen"
  THEN {"connect", "listen"} \subseteq feedMethods
  ELSE MethodOf(site) \in feedMethods

FirstOfGroup(site) ==
  SiteIndex(site) = 1
  \/ GroupOf(RunSites[SiteIndex(site) - 1]) # GroupOf(site)

LastOfGroup(site) ==
  SiteIndex(site) = Len(RunSites)
  \/ GroupOf(RunSites[SiteIndex(site) + 1]) # GroupOf(site)

\* C17 as stated: for every method the positional convention comes first: a
\* call that passes the handler by name is made only after the positional
\* call of the same method was made in that attempt.  (Spec)
C17_PositionalFirst ==
  \A i \in 1..Len(runCalls) :
    ConventionOf(runCalls[i]) = "named" =>
      \E j \in 1..(i - 1) :
        /\ MethodOf(runCalls[j]) = MethodOf(runCalls[i])
        /\ ConventionOf(runCalls[j]) = "positional"

\* C17 amended: the run-style calls of an attempt follow the source order
\* run_forever(handler), run_forever(on_message=), run_forever(callback=),
\* run(on_message=), run(handler), start(handler), start(on_message=),
\* connect() + listen(handler), restricted to the blocks whose attributes
\* the handle has.  Within a block the next call site is tried exactly
\* after the one before it raised TypeError (listen after connect()
\* returned); the first call site of a later block is tried only after the
\* last call site of the block before it raised TypeError or any other
\* exception; no call follows a normal return.  (Spec)
C17_SourceOrder ==
  /\ Len(runResults) \in {Len(runCalls), Len(runCalls) - 1}
  /\ runCalls # <<>> =>
       /\ SiteTried(runCalls[1]) /\ FirstOfGroup(runCalls[1])
       /\ \A j \in 1..(SiteIndex(runCalls[1]) - 1) : ~SiteTried(RunSites[j])
  /\ \A i \in 1..(Len(runCalls) - 1) :
       LET a == runCalls[i]
           b == runCalls[i + 1]
           r == runResults[i]
       IN IF GroupOf(a) = GroupOf(b)
          THEN /\ SiteIndex(b) = SiteIndex(a) + 1
               /\ r = IF a = "connect()" THEN "returns" ELSE "TypeError"
          ELSE /\ SiteIndex(a) < SiteIndex(b)
               /\ r \in {"TypeError", "Exception"}
               /\ LastOfGroup(a) /\ FirstOfGroup(b)
               /\ SiteTried(b)
               /\ \A j \in (SiteIndex(a) + 1)..(SiteIndex(b) - 1) :
                    ~SiteTried(RunSites[j])

\* every call site was tried in one attempt: run(on_message=) before
\* run(handler), and listen(handler) last
C17_Witness ==
  /\ runCalls = RunSites
  /\ Len(runResults) = Len(RunSites)
  /\ runResults[Len(RunSites)] = "returns"

\* C18: in every reachable state backoff lies between INITIAL_BACKOFF and
\* MAX_BACKOFF, and so does the duration of every backoff sleep.  (Spec)
C18_BackoffInRange ==
  /\ backoff >= INITIAL_BACKOFF /\ backoff <= MAX_BACKOFF
  /\ \A i \in 1..Len(sleeps) :
       sleeps[i] >= INITIAL_BACKOFF /\ sleeps[i] <= MAX_BACKOFF
  /\ pc = "backoff_sleep" =>
       (lastSleep >= INITIAL_BACKOFF /\ lastSleep <= MAX_BACKOFF)

\* a backoff sleep of MAX_BACKOFF seconds with backoff at its cap
C18_Witness ==
  /\ pc = "backoff_sleep"
  /\ lastSleep = MAX_BACKOFF /\ backoff = MAX_BACKOFF

\* C19: an entry of _last_sent never disappears and never decreases; when
\* it changes, the new value is at least SEND_INTERVAL_SECONDS above the
\* old one; and a POST answered with a 2xx was started at least
\* SEND_INTERVAL_SECONDS after the time stored by the successful POST
\* before it for the same instrument.  (SpecNotifier)
C19_SendsACooldownApart ==
  [][/\ DOMAIN _last_sent \subseteq DOMAIN _last_sent'
     /\ \A sid \in DOMAIN _last_sent :
          /\ _last_sent'[sid] >= _last_sent[sid]
          /\ _last_sent'[sid] # _last_sent[sid] =>
               _last_sent'[sid] >= _last_sent[sid] + SEND_INTERVAL_SECONDS
     /\ \A sid \in DOMAIN sends' :
          Get(sends, sid, 0) # sends'[sid] =>
            /\ now >= Get(_last_sent, sid, 0) + SEND_INTERVAL_SECONDS
            /\ sid \in DOMAIN _last_sent'
            /\ _last_sent'[sid] = now']_vars

\* two POSTs for one instrument were answered with a 2xx
C19_Witness ==
  /\ "1333" \in DOMAIN sends /\ sends["1333"] = 2
  /\ _last_sent["1333"] >= StartTime + SEND_INTERVAL_SECONDS
  /\ lastCall.send = "2xx" /\ lastCall.sid = "1333"

====
